---- MODULE Spec2Model ----
(***************************************************************************)
(* Voice-interaction core of Prism-AI-Assistant:                           *)
(*   SpeechRecognitionEngine  (src/prism/utils/speech_recognition_engine.py)*)
(*   TTSEngine                (src/prism/utils/tts_engine.py)              *)
(*   MainWindow coordination  (src/prism/gui/main_window.py)               *)
(*                                                                         *)
(* Threads.  Handlers that run on the Qt GUI thread (button slots, speak,  *)
(* the media-status callback) are one step each.  Every Python worker      *)
(* thread (_listen_loop, _speak_in_thread, monitor_interruption) is cut at *)
(* each blocking call and at each read of a shared flag that decides what  *)
(* it does next, so the GUI thread and the other workers interleave with   *)
(* it exactly there.                                                       *)
(*                                                                         *)
(* Time is counted in ticks of 0.1 s.  Sleeps shorter than a tick          *)
(* (0.02 s, 0.05 s) take no tick.                                          *)
(***************************************************************************)
EXTENDS Integers, FiniteSets, Sequences, TLC

\* ---- bounds of the model ------------------------------------------------
MaxListenThreads == 2      \* _listen_loop threads ever created
MaxSessions == 3           \* speak() calls with non-empty text
MaxAppSessions == 2        \* of them, answers spoken by the application
MaxBriefSessions == 2      \* of them, speak() calls in the brief TTSEngine runs
MaxTime == 1               \* ticks the clock advances after start-up
StartTime == 12            \* time.time() at start-up, in ticks (far from 0)
MaxCount == 2              \* event counters saturate here
MaxDetTime == 12           \* largest time given to detect_voice_interrupt

\* ---- program constants (in ticks of 0.1 s) ------------------------------
debounce_time == 1         \* SpeechRecognitionEngine.debounce_time = 0.1
InterruptDebounce == 10    \* the 1.0 in MainWindow.detect_voice_interrupt
ResumeDelay == 5           \* time.sleep(0.5) in resume_speech_recognition

ListenThreads == 1..MaxListenThreads
Sessions == 1..MaxSessions
None == 0

\* pyqtSignal attributes that class TTSEngine declares
TTSEngineSignals == {"playback_finished", "playback_started"}

VARIABLES
  sr,     \* the SpeechRecognitionEngine object and its _listen_loop threads
  tts,    \* the TTSEngine object, its player, temp files and threads
  win,    \* the MainWindow: buttons, was_listening, signal connections
  now,    \* time.time()
  hist,   \* what has been emitted and released so far (observation only)
  det     \* one evaluation of detect_voice_interrupt on given inputs

vars == <<sr, tts, win, now, hist, det>>

\* The state as one value, so that a handler is the composition of the
\* statements it executes, in their order.
World == [sr |-> sr, tts |-> tts, win |-> win, now |-> now, hist |-> hist]

Commit(c) ==
  /\ sr' = c.sr
  /\ tts' = c.tts
  /\ win' = c.win
  /\ now' = c.now
  /\ hist' = c.hist

Sat(n) == IF n < MaxCount THEN n + 1 ELSE MaxCount

\* =========================================================================
\* SpeechRecognitionEngine
\* =========================================================================

LiveListen(c) ==
  {w \in ListenThreads : c.sr.threads[w] \in {"loop", "capture", "recognize", "backoff"}}

Created(c) == {w \in ListenThreads : c.sr.threads[w] # "none"}

\* The thread id the next threading.Thread(target=self._listen_loop) gets.
NextListenThread(c) == Cardinality(Created(c)) + 1

CanStartThread(c) == NextListenThread(c) <= MaxListenThreads

\* start_listening() without the `if self.is_listening: return`
start_listening_nocheck(c, continuous) ==
  [c EXCEPT !.sr.continuous_mode = continuous,
            !.sr.is_listening = TRUE,
            !.sr.listen_thread = NextListenThread(c),
            !.sr.threads[NextListenThread(c)] = "loop",
            !.hist.announced = Sat(@),
            !.hist.status = "Listening..."]

start_listening(c, continuous) ==
  IF c.sr.is_listening
    THEN c
    ELSE [c EXCEPT !.sr.continuous_mode = continuous,
                   !.sr.is_listening = TRUE,
                   !.sr.listen_thread = NextListenThread(c),
                   !.sr.threads[NextListenThread(c)] = "loop",
                   !.hist.announced = Sat(@),
                   !.hist.status = "Listening..."]

\* stop_listening() that asks self.listen_thread.is_alive() without testing
\* self.listen_thread first: on an engine that was never started the
\* attribute is None, AttributeError leaves the method.
stop_listening_noguard(c) ==
  LET t == c.sr.listen_thread
      c1 == [c EXCEPT !.sr.is_listening = FALSE,
                      !.hist.stopped = Created(c)]
  IN IF t = None THEN [c1 EXCEPT !.hist.raised = TRUE]
     ELSE [(IF c.sr.threads[t] = "loop"
              THEN [c1 EXCEPT !.sr.threads[t] = "done"]
              ELSE c1) EXCEPT !.hist.status = "Not listening"]

\* join(timeout=0.1) on self.listen_thread, guarded by `self.listen_thread
\* and self.listen_thread.is_alive()`: a thread at the top of its loop
\* (the while test, or the 0.02 s debounce sleep) sees the cleared flag and
\* ends within the timeout; one blocked in capture, in recognition or in the
\* 0.5 s back-off outlives it.  From here on stop_listening() has completed
\* for every thread created so far.  No statement of it raises.
stop_listening(c) ==
  LET t == c.sr.listen_thread
      c1 == [c EXCEPT !.sr.is_listening = FALSE,
                      !.hist.stopped = Created(c)]
      c2 == IF t # None /\ c.sr.threads[t] = "loop"
              THEN [c1 EXCEPT !.sr.threads[t] = "done"]
              ELSE c1
  IN [c2 EXCEPT !.hist.status = "Not listening"]

set_last_tts_time(c) == [c EXCEPT !.sr.last_tts_end_time = c.now]

InDebounce(c) == c.now - c.sr.last_tts_end_time < debounce_time

\* _listen_loop, top of the loop: the while test, the debounce test, the
\* "Listening for command..." status and `with sr.Microphone()` up to the
\* blocking recognizer.listen().  mic tells whether the audio device could
\* be opened; if not, sr.Microphone() raises, `except Exception` logs it
\* and the thread sleeps 0.5 s.
listen_loop_top(c, w, mic) ==
  IF ~c.sr.is_listening THEN [c EXCEPT !.sr.threads[w] = "done"]
  ELSE IF InDebounce(c) THEN c
  ELSE [c EXCEPT !.hist.status = "Listening for command...",
                 !.sr.threads[w] = IF mic THEN "capture" ELSE "backoff"]

\* The return of recognizer.listen() without the `if not self.is_listening:
\* return` test after it.
listen_captured_nocheck(c, w, outcome) ==
  IF outcome = "timeout" THEN [c EXCEPT !.sr.threads[w] = "loop"]
  ELSE [c EXCEPT !.sr.threads[w] = "recognize",
                 !.hist.status = "Processing speech..."]

\* recognizer.listen() ends.  outcome "segment": it returns audio; `if not
\* self.is_listening: return`; the "Processing speech..." status.  outcome
\* "timeout": it raises sr.WaitTimeoutError, which `except
\* sr.WaitTimeoutError` logs before the loop goes round.
listen_captured(c, w, outcome) ==
  IF outcome = "timeout" THEN [c EXCEPT !.sr.threads[w] = "loop"]
  ELSE IF ~c.sr.is_listening
    THEN [c EXCEPT !.sr.threads[w] = "done"]
    ELSE [c EXCEPT !.sr.threads[w] = "recognize",
                   !.hist.status = "Processing speech..."]

\* The outcomes of recognizer.listen(source, timeout=None, ...): without a
\* timeout the library never raises sr.WaitTimeoutError.
CaptureOutcomes == {"segment"}

\* speech_recognized.emit(text) by thread w.
emit_speech_recognized(c, w) ==
  [c EXCEPT !.hist.recognized[w] = Sat(@),
            !.hist.late = IF w \in c.hist.stopped THEN @ \cup {w} ELSE @]

\* _listen_loop that goes round again after a text in single-shot mode
listen_recognized_noreturn(c, w, outcome) ==
  IF outcome = "text"
    THEN [emit_speech_recognized(set_last_tts_time(c), w)
            EXCEPT !.sr.threads[w] = "loop"]
  ELSE IF outcome = "error" THEN [c EXCEPT !.sr.threads[w] = "backoff"]
  ELSE [c EXCEPT !.sr.threads[w] = "loop"]

\* _listen_loop whose single-shot branch returns without `self.is_listening
\* = False`.
listen_recognized_noclear(c, w, outcome) ==
  IF outcome = "text"
    THEN LET c1 == emit_speech_recognized(set_last_tts_time(c), w) IN
         IF ~c1.sr.continuous_mode
           THEN [c1 EXCEPT !.sr.threads[w] = "done",
                           !.hist.status = "Not listening"]
           ELSE [c1 EXCEPT !.sr.threads[w] = "loop"]
  ELSE IF outcome = "error" THEN [c EXCEPT !.sr.threads[w] = "backoff"]
  ELSE [c EXCEPT !.sr.threads[w] = "loop"]

\* _listen_loop that ends the session after every text, without the `if not
\* self.continuous_mode` test.
listen_recognized_stops(c, w, outcome) ==
  IF outcome = "text"
    THEN [emit_speech_recognized(set_last_tts_time(c), w)
            EXCEPT !.sr.is_listening = FALSE,
                   !.sr.threads[w] = "done",
                   !.hist.status = "Not listening"]
  ELSE IF outcome = "error" THEN [c EXCEPT !.sr.threads[w] = "backoff"]
  ELSE [c EXCEPT !.sr.threads[w] = "loop"]

\* _listen_loop without its `except sr.UnknownValueError` and `except
\* Exception` clauses: the exception of recognize_google() ends the thread.
listen_recognized_uncaught(c, w, outcome) ==
  IF outcome = "text"
    THEN LET c1 == emit_speech_recognized(set_last_tts_time(c), w) IN
         IF ~c1.sr.continuous_mode
           THEN [c1 EXCEPT !.sr.is_listening = FALSE,
                           !.sr.threads[w] = "done",
                           !.hist.status = "Not listening"]
           ELSE [c1 EXCEPT !.sr.threads[w] = "loop"]
  ELSE IF outcome = "empty" THEN [c EXCEPT !.sr.threads[w] = "loop"]
  ELSE [c EXCEPT !.sr.threads[w] = "done"]

\* recognize_google() returns: outcome "text" (non-empty text), "empty",
\* "unknown" (sr.UnknownValueError) or "error" (any other exception, after
\* which the thread sleeps 0.5 s).
listen_recognized(c, w, outcome) ==
  IF outcome = "text"
    THEN LET c1 == emit_speech_recognized(set_last_tts_time(c), w) IN
         IF ~c1.sr.continuous_mode
           THEN [c1 EXCEPT !.sr.is_listening = FALSE,
                           !.sr.threads[w] = "done",
                           !.hist.status = "Not listening"]
           ELSE [c1 EXCEPT !.sr.threads[w] = "loop"]
  ELSE IF outcome = "error" THEN [c EXCEPT !.sr.threads[w] = "backoff"]
  ELSE [c EXCEPT !.sr.threads[w] = "loop"]

\* time.sleep(0.5) in the `except Exception` branch returns
listen_backoff_done(c, w) == [c EXCEPT !.sr.threads[w] = "loop"]

RecognizeOutcomes == {"text", "empty", "unknown", "error"}

\* =========================================================================
\* MainWindow: signal wiring and the coordination slots
\* =========================================================================

VoiceConnections ==
  { <<"toggled", "toggle_voice_input">>,
    <<"speech_recognized", "on_speech_recognized">>,
    <<"status_changed", "update_status">> }

\* connect_signals runs inside one try block: the first attribute of
\* tts_engine that does not exist raises AttributeError and every connect
\* call after it is skipped.
connect_signals ==
  IF "speech_started" \notin TTSEngineSignals THEN VoiceConnections
  ELSE IF "speech_ended" \notin TTSEngineSignals
    THEN VoiceConnections \cup { <<"speech_started", "on_speech_started">> }
  ELSE VoiceConnections \cup
         { <<"speech_started", "on_speech_started">>,
           <<"speech_ended", "on_speech_ended">>,
           <<"speech_started", "pause_speech_recognition">>,
           <<"speech_ended", "resume_speech_recognition">> }

Connected(c, signal, slot) == <<signal, slot>> \in c.win.connections

pause_speech_recognition(c) ==
  LET c1 == [c EXCEPT !.win.was_listening = FALSE] IN
  IF c1.sr.is_listening
    THEN stop_listening([c1 EXCEPT !.win.was_listening = TRUE])
    ELSE c1

\* time.sleep(0.5) blocks the calling thread for ResumeDelay ticks.
resume_speech_recognition(c) ==
  IF c.win.was_listening
    THEN LET c1 == set_last_tts_time(c)
             c2 == IF c1.win.voice_checked
                     THEN start_listening([c1 EXCEPT !.now = @ + ResumeDelay],
                                          c1.win.continuous_checked)
                     ELSE c1
         IN [c2 EXCEPT !.win.was_listening = FALSE]
    ELSE c

detect_voice_interrupt_nodebounce(t, last, checked, hearing) ==
  checked /\ hearing

\* MainWindow.detect_voice_interrupt at time t, reading
\* speech_recognition.last_tts_end_time, voice_input_button.isChecked()
\* and speech_recognition.is_hearing_audio.
detect_voice_interrupt(t, last, checked, hearing) ==
  IF t - last < InterruptDebounce THEN FALSE
  ELSE checked /\ hearing

\* toggle_voice_input(enabled), the slot of voice_input_button.toggled
toggle_voice_input(c, enabled) ==
  IF enabled
    THEN start_listening(c, c.win.continuous_checked)
    ELSE stop_listening(c)

\* =========================================================================
\* TTSEngine
\* =========================================================================

\* Signal emission: the slots connected under the emitted signal's name run.
emit_playback_started(c) ==
  LET n == c.tts.cur
      c1 == [c EXCEPT !.hist.started[n] = Sat(@),
                      !.hist.fin_at_start[n] =
                         IF n > 1 THEN c.hist.finished[n - 1] ELSE 0,
                      !.hist.listening_at_start[n] = c.sr.is_listening]
  IN IF Connected(c1, "playback_started", "pause_speech_recognition")
       THEN pause_speech_recognition(c1)
       ELSE c1

emit_playback_finished(c) ==
  LET c1 == [c EXCEPT !.hist.finished[c.tts.cur] = Sat(@),
                      !.hist.playback_end = c.now]
  IN IF Connected(c1, "playback_finished", "resume_speech_recognition")
       THEN resume_speech_recognition(c1)
       ELSE c1

\* os.remove succeeds on an existing file (POSIX); a path that does not
\* exist leaves self.temp_file as it is.
cleanup_temp_file(c) ==
  LET f == c.tts.temp_file IN
  IF f # None /\ c.tts.files[f] = "exists"
    THEN [c EXCEPT !.tts.files[f] = "removed",
                   !.tts.temp_file = None,
                   !.hist.released[f] = Sat(@)]
    ELSE c

player_stop(c) == [c EXCEPT !.tts.playing = FALSE]

\* The body of stop_speaking once `if self.is_speaking` has been passed.
stop_speaking_body(c) ==
  emit_playback_finished(
    cleanup_temp_file(
      player_stop([c EXCEPT !.tts.is_speaking = FALSE])))

\* stop_speaking() without the `if self.is_speaking`
stop_speaking_nocheck(c) ==
  emit_playback_finished(
    cleanup_temp_file(
      player_stop([c EXCEPT !.tts.is_speaking = FALSE])))

stop_speaking(c) ==
  IF c.tts.is_speaking THEN stop_speaking_body(c) ELSE c

\* The state of the controller's current session, the one the latest
\* speak() began.
PlaybackState(c) ==
  LET n == c.tts.cur IN
  IF n = 0 \/ ~c.tts.is_speaking THEN "Idle"
  ELSE IF c.tts.playing /\ c.tts.source = n THEN "Playing"
  ELSE IF c.tts.threads[n] \in {"start", "generate", "play"} THEN "Generating"
  ELSE "Stalled"

\* speak() that starts a session without emitting playback_started
speak_nostarted(c, text) ==
  IF text = "" THEN c
  ELSE
    LET n  == c.tts.cur + 1
        c1 == IF c.tts.is_speaking THEN stop_speaking(c) ELSE c
        c2 == [c1 EXCEPT !.tts.is_speaking = TRUE,
                         !.tts.cur = n,
                         !.hist.prev_state[n] = PlaybackState(c)]
    IN [c2 EXCEPT !.tts.threads[n] = "start"]

\* speak() without the `if not text: return`
speak_noempty(c, text) ==
  LET n  == c.tts.cur + 1
      c1 == IF c.tts.is_speaking THEN stop_speaking(c) ELSE c
      c2 == [c1 EXCEPT !.tts.is_speaking = TRUE,
                       !.tts.cur = n,
                       !.hist.prev_state[n] = PlaybackState(c)]
      c3 == emit_playback_started(c2)
  IN [c3 EXCEPT !.tts.threads[n] = "start"]

\* speak(text); _clean_text_for_speech changes the text only.
speak(c, text) ==
  IF text = "" THEN c
  ELSE
    LET n  == c.tts.cur + 1
        c1 == IF c.tts.is_speaking THEN stop_speaking(c) ELSE c
        c2 == [c1 EXCEPT !.tts.is_speaking = TRUE,
                         !.tts.cur = n,
                         !.hist.prev_state[n] = PlaybackState(c)]
        c3 == emit_playback_started(c2)
    IN [c3 EXCEPT !.tts.threads[n] = "start"]

\* _on_media_status_changed(EndOfMedia)
on_media_status_changed(c) ==
  emit_playback_finished(
    cleanup_temp_file([c EXCEPT !.tts.is_speaking = FALSE]))

\* _speak_in_thread of session s, up to the blocking generation call:
\* NamedTemporaryFile(delete=False) creates the file, self.temp_file names it.
speak_thread_start(c, s) ==
  [c EXCEPT !.tts.files[s] = "exists",
            !.tts.temp_file = s,
            !.tts.threads[s] = "generate"]

\* The thread of session s fails before it has a temp file
\* (NamedTemporaryFile raises OSError): the `except Exception` branch.
speak_thread_error(c, s) ==
  emit_playback_finished([c EXCEPT !.tts.is_speaking = FALSE,
                                   !.tts.threads[s] = "done"])

\* asyncio.run(_generate_speech(...)) returns, then `if not self.is_speaking`.
\* _generate_speech catches the exception of a failed synthesis itself and
\* returns normally: ok tells whether the file now holds audio.
\* communicate.save opens the path for writing: a file removed before that
\* open exists again (recreated), one removed after it stays removed.
speak_thread_generated(c, s, recreated, ok) ==
  LET c1 == IF c.tts.files[s] = "removed" /\ recreated
              THEN [c EXCEPT !.tts.files[s] = "exists"]
              ELSE c
  IN IF ~c1.tts.is_speaking
       THEN [c1 EXCEPT !.tts.threads[s] = "done",
                       !.tts.files[s] = IF @ = "exists" THEN "removed" ELSE @,
                       !.hist.released[s] =
                          IF c1.tts.files[s] = "exists" THEN Sat(@) ELSE @]
       ELSE [c1 EXCEPT !.tts.threads[s] = "play",
                       !.tts.audio[s] = IF ok THEN "ok" ELSE "failed"]

\* player.setSource(file); player.play(); _start_interrupt_detection().
\* A path that does not exist, or a file without audio, plays nothing and
\* never reaches EndOfMedia.
speak_thread_play(c, s) ==
  [c EXCEPT !.tts.source = s,
            !.tts.playing = (c.tts.files[s] = "exists" /\ c.tts.audio[s] = "ok"),
            !.tts.threads[s] = "done",
            !.tts.monitors[s] =
               IF c.tts.interrupt_detector # "none" THEN "poll" ELSE @,
            !.hist.handed[s] =
               IF s # c.tts.cur THEN "superseded"
               ELSE IF ~c.tts.is_speaking THEN "stopped"
               ELSE "current"]

\* What self.interrupt_detector() may return: MainWindow installs
\* detect_voice_interrupt ("app"); a caller of set_auto_interrupt_detector
\* may install any callable ("any").
DetectorResults(c) ==
  IF c.tts.interrupt_detector = "app"
    THEN { detect_voice_interrupt(c.now, c.sr.last_tts_end_time,
                                  c.win.voice_checked, c.sr.is_hearing_audio) }
    ELSE BOOLEAN

\* monitor_interruption: `while self.is_speaking` and one call of
\* _check_for_interruption() returning r; time.sleep(0.05) when r is false.
monitor_poll(c, s, r) ==
  IF ~c.tts.is_speaking THEN [c EXCEPT !.tts.monitors[s] = "done"]
  ELSE IF r THEN [c EXCEPT !.tts.monitors[s] = "stop",
                           !.hist.barge[s] =
                              IF PlaybackState(c) = "Playing" THEN c.tts.cur ELSE 0]
  ELSE c

\* the monitor thread enters stop_speaking(): `if self.is_speaking`
monitor_stop_test(c, s) ==
  IF c.tts.is_speaking
    THEN [c EXCEPT !.tts.monitors[s] = "stopping"]
    ELSE [c EXCEPT !.tts.monitors[s] = "done"]

\* the monitor thread runs the body of stop_speaking(), then `break`
monitor_stop_body(c, s) ==
  [stop_speaking_body(c) EXCEPT !.tts.monitors[s] = "done"]

\* =========================================================================
\* Initial state
\* =========================================================================

NoHistory ==
  [ stopped |-> {},                              \* threads stop_listening() has completed for
    late |-> {},                                 \* threads that emitted speech_recognized after it
    recognized |-> [w \in ListenThreads |-> 0],  \* speech_recognized emissions per thread
    announced |-> 0,                             \* status_changed("Listening...") emissions
    status |-> "",                               \* text of the last status_changed emission
    raised |-> FALSE,                            \* an exception left stop_listening()
    started |-> [s \in Sessions |-> 0],          \* playback_started emissions per session
    finished |-> [s \in Sessions |-> 0],         \* playback_finished emissions per session
    fin_at_start |-> [s \in Sessions |-> 0],     \* finished[s-1] when started[s] was emitted
    released |-> [s \in Sessions |-> 0],         \* removals of session s's temp file
    listening_at_start |-> [s \in Sessions |-> FALSE],
    prev_state |-> [s \in Sessions |-> "none"],  \* PlaybackState when speak() began s
    handed |-> [s \in Sessions |-> "no"],        \* how s's audio reached the player
    barge |-> [s \in Sessions |-> 0],            \* session Playing when monitor s saw true
    cancelled |-> {},                            \* sessions stop_speaking() was called on during generation
    playback_end |-> -1 ]                        \* time of the last playback_finished

\* SpeechRecognitionEngine.__init__
NewSpeechRecognitionEngine ==
  [ is_listening |-> FALSE,
    continuous_mode |-> FALSE,
    last_tts_end_time |-> 0,
    is_hearing_audio |-> FALSE,
    listen_thread |-> None,
    threads |-> [w \in ListenThreads |-> "none"] ]

\* TTSEngine.__init__
NewTTSEngine ==
  [ is_speaking |-> FALSE,
    temp_file |-> None,
    source |-> None,
    playing |-> FALSE,
    files |-> [s \in Sessions |-> "none"],
    audio |-> [s \in Sessions |-> "none"],
    cur |-> 0,
    threads |-> [s \in Sessions |-> "none"],
    monitors |-> [s \in Sessions |-> "none"],
    interrupt_detector |-> "none" ]

\* MainWindow.__init__: the engines, set_auto_interrupt_detector,
\* connect_signals, then both toggles are checked and listening is started
\* (setChecked(True) fires toggle_voice_input, which is then called again).
NewMainWindow ==
  LET c0 == [ sr |-> NewSpeechRecognitionEngine,
              tts |-> [NewTTSEngine EXCEPT !.interrupt_detector = "app"],
              win |-> [ voice_checked |-> FALSE,
                        continuous_checked |-> FALSE,
                        was_listening |-> FALSE,
                        connections |-> connect_signals ],
              now |-> StartTime,
              hist |-> NoHistory ]
      c1 == [c0 EXCEPT !.win.continuous_checked = TRUE]
      c2 == toggle_voice_input([c1 EXCEPT !.win.voice_checked = TRUE], TRUE)
  IN toggle_voice_input(c2, TRUE)

NoDet == [phase |-> "unused"]

Init ==
  /\ sr = NewMainWindow.sr
  /\ tts = NewMainWindow.tts
  /\ win = NewMainWindow.win
  /\ now = NewMainWindow.now
  /\ hist = NewMainWindow.hist
  /\ det = NoDet

\* =========================================================================
\* Steps of the application
\* =========================================================================

\* The user clicks voice_input_button: toggled(enabled) -> toggle_voice_input
ClickVoiceInput ==
  LET enabled == ~win.voice_checked
      c == [World EXCEPT !.win.voice_checked = enabled]
  IN /\ (enabled /\ ~sr.is_listening) => CanStartThread(World)
     /\ Commit(toggle_voice_input(c, enabled))
     /\ UNCHANGED det

\* The user clicks continuous_listening_toggle (no slot is connected)
ClickContinuous ==
  /\ Commit([World EXCEPT !.win.continuous_checked = ~@])
  /\ UNCHANGED det

Texts == {"", "answer"}

\* handle_response(response): a ResponseThread started by send_message (typed
\* by the user, or sent by on_speech_recognized) delivers the answer.
HandleResponse ==
  \E text \in Texts :
    /\ text # "" => tts.cur < MaxAppSessions
    /\ Commit(speak(World, text))
    /\ UNCHANGED det

\* The player reaches the end of the media it is playing.
MediaEnd ==
  /\ tts.playing
  /\ Commit(on_media_status_changed([World EXCEPT !.tts.playing = FALSE]))
  /\ UNCHANGED det

Tick ==
  /\ now < StartTime + MaxTime
  /\ Commit([World EXCEPT !.now = @ + 1])
  /\ UNCHANGED det

ListenLoopTop(w) ==
  /\ sr.threads[w] = "loop"
  /\ Commit(listen_loop_top(World, w, TRUE))
  /\ UNCHANGED det

\* The same step on a machine whose audio input device cannot be opened.
ListenMicUnavailable(w) ==
  /\ sr.threads[w] = "loop"
  /\ Commit(listen_loop_top(World, w, FALSE))
  /\ UNCHANGED det

ListenCaptured(w) ==
  /\ sr.threads[w] = "capture"
  /\ \E outcome \in CaptureOutcomes :
       Commit(listen_captured(World, w, outcome))
  /\ UNCHANGED det

ListenRecognized(w) ==
  /\ sr.threads[w] = "recognize"
  /\ \E outcome \in RecognizeOutcomes : Commit(listen_recognized(World, w, outcome))
  /\ UNCHANGED det

ListenBackoffDone(w) ==
  /\ sr.threads[w] = "backoff"
  /\ Commit(listen_backoff_done(World, w))
  /\ UNCHANGED det

SpeakThreadStart(s) ==
  /\ tts.threads[s] = "start"
  /\ Commit(speak_thread_start(World, s))
  /\ UNCHANGED det

SpeakThreadError(s) ==
  /\ tts.threads[s] = "start"
  /\ Commit(speak_thread_error(World, s))
  /\ UNCHANGED det

SpeakThreadGenerated(s) ==
  /\ tts.threads[s] = "generate"
  /\ \E recreated \in BOOLEAN, ok \in BOOLEAN :
       Commit(speak_thread_generated(World, s, recreated, ok))
  /\ UNCHANGED det

SpeakThreadPlay(s) ==
  /\ tts.threads[s] = "play"
  /\ Commit(speak_thread_play(World, s))
  /\ UNCHANGED det

MonitorPoll(s) ==
  /\ tts.monitors[s] = "poll"
  /\ \E r \in DetectorResults(World) : Commit(monitor_poll(World, s, r))
  /\ UNCHANGED det

MonitorStopTest(s) ==
  /\ tts.monitors[s] = "stop"
  /\ Commit(monitor_stop_test(World, s))
  /\ UNCHANGED det

MonitorStopBody(s) ==
  /\ tts.monitors[s] = "stopping"
  /\ Commit(monitor_stop_body(World, s))
  /\ UNCHANGED det

\* In the application detect_voice_interrupt never returns true
\* (is_hearing_audio is never written), so the monitor never leaves its
\* polling loop through stop_speaking(): those two steps are steps of
\* NextTTS only.
Next ==
  \/ ClickVoiceInput
  \/ ClickContinuous
  \/ HandleResponse
  \/ MediaEnd
  \/ Tick
  \/ \E w \in ListenThreads : ListenLoopTop(w)
  \/ \E w \in ListenThreads : ListenCaptured(w)
  \/ \E w \in ListenThreads : ListenRecognized(w)
  \/ \E w \in ListenThreads : ListenBackoffDone(w)
  \/ \E s \in Sessions : SpeakThreadStart(s)
  \/ \E s \in Sessions : SpeakThreadError(s)
  \/ \E s \in Sessions : SpeakThreadGenerated(s)
  \/ \E s \in Sessions : SpeakThreadPlay(s)
  \/ \E s \in Sessions : MonitorPoll(s)

Spec == Init /\ [][Next]_vars

\* =========================================================================
\* TTSEngine on its own, driven through its public methods, with an
\* arbitrary callable installed by set_auto_interrupt_detector
\* =========================================================================

InitTTS ==
  /\ sr = NewSpeechRecognitionEngine
  /\ tts = [NewTTSEngine EXCEPT !.interrupt_detector = "any"]
  /\ win = [ voice_checked |-> FALSE, continuous_checked |-> FALSE,
             was_listening |-> FALSE, connections |-> {} ]
  /\ now = StartTime
  /\ hist = NoHistory
  /\ det = NoDet

CallSpeak ==
  \E text \in Texts :
    /\ text # "" => tts.cur < MaxSessions
    /\ Commit(speak(World, text))
    /\ UNCHANGED det

\* stop_speaking() called from outside the engine.  A call that finds the
\* current session's thread inside asyncio.run(_generate_speech) cancels a
\* generation in flight.
CallStopSpeaking ==
  LET n == tts.cur
      inflight == tts.is_speaking /\ n # 0 /\ tts.threads[n] = "generate"
      c == stop_speaking(World)
  IN /\ Commit([c EXCEPT !.hist.cancelled = IF inflight THEN @ \cup {n} ELSE @])
     /\ UNCHANGED det

NextTTS ==
  \/ CallSpeak
  \/ CallStopSpeaking
  \/ MediaEnd
  \/ \E s \in Sessions : SpeakThreadStart(s)
  \/ \E s \in Sessions : SpeakThreadError(s)
  \/ \E s \in Sessions : SpeakThreadGenerated(s)
  \/ \E s \in Sessions : SpeakThreadPlay(s)
  \/ \E s \in Sessions : MonitorPoll(s)
  \/ \E s \in Sessions : MonitorStopTest(s)
  \/ \E s \in Sessions : MonitorStopBody(s)

SpecTTS == InitTTS /\ [][NextTTS]_vars

\* The same engine and the same steps, with fewer speak() calls
CallSpeakBrief ==
  \E text \in Texts :
    /\ text # "" => tts.cur < MaxBriefSessions
    /\ Commit(speak(World, text))
    /\ UNCHANGED det

NextTTSBrief ==
  \/ CallSpeakBrief
  \/ CallStopSpeaking
  \/ MediaEnd
  \/ \E s \in Sessions : SpeakThreadStart(s)
  \/ \E s \in Sessions : SpeakThreadError(s)
  \/ \E s \in Sessions : SpeakThreadGenerated(s)
  \/ \E s \in Sessions : SpeakThreadPlay(s)
  \/ \E s \in Sessions : MonitorPoll(s)
  \/ \E s \in Sessions : MonitorStopTest(s)
  \/ \E s \in Sessions : MonitorStopBody(s)

SpecTTSBrief == InitTTS /\ [][NextTTSBrief]_vars

\* The same steps under the scheduling the platform gives: every thread
\* that can take its next step takes it in the end (the generation thread
\* returns from each of its blocking calls, the monitor thread that has
\* seen the detector return true goes on into stop_speaking()), and the
\* player reports the end of media it is playing.  Calls of speak() and
\* stop_speaking() are the caller's and need not come, and nothing makes
\* the interrupt detector return true.
TTSFairness ==
  /\ WF_vars(MediaEnd)
  /\ \A s \in Sessions :
       /\ WF_vars(SpeakThreadStart(s))
       /\ WF_vars(SpeakThreadGenerated(s))
       /\ WF_vars(SpeakThreadPlay(s))
       /\ WF_vars(MonitorStopTest(s))
       /\ WF_vars(MonitorStopBody(s))

SpecTTSFair == InitTTS /\ [][NextTTSBrief]_vars /\ TTSFairness

\* =========================================================================
\* SpeechRecognitionEngine on its own, driven through start_listening and
\* stop_listening
\* =========================================================================

InitListen ==
  /\ sr = NewSpeechRecognitionEngine
  /\ tts = NewTTSEngine
  /\ win = [ voice_checked |-> FALSE, continuous_checked |-> FALSE,
             was_listening |-> FALSE, connections |-> {} ]
  /\ now = StartTime
  /\ hist = NoHistory
  /\ det = NoDet

CallStartListening ==
  \E continuous \in BOOLEAN :
    /\ ~sr.is_listening => CanStartThread(World)
    /\ Commit(start_listening(World, continuous))
    /\ UNCHANGED det

CallStopListening ==
  /\ Commit(stop_listening(World))
  /\ UNCHANGED det

NextListen ==
  \/ CallStartListening
  \/ CallStopListening
  \/ Tick
  \/ \E w \in ListenThreads : ListenLoopTop(w)
  \/ \E w \in ListenThreads : ListenMicUnavailable(w)
  \/ \E w \in ListenThreads : ListenCaptured(w)
  \/ \E w \in ListenThreads : ListenRecognized(w)
  \/ \E w \in ListenThreads : ListenBackoffDone(w)

SpecListen == InitListen /\ [][NextListen]_vars

\* =========================================================================
\* detect_voice_interrupt as a function of what it reads
\* =========================================================================

DetTimes == 0..MaxDetTime

InitDetect ==
  /\ sr = NewMainWindow.sr
  /\ tts = NewMainWindow.tts
  /\ win = NewMainWindow.win
  /\ now = NewMainWindow.now
  /\ hist = NewMainWindow.hist
  /\ det \in [ phase : {"input"}, t : DetTimes, last : DetTimes,
               checked : BOOLEAN, hearing : BOOLEAN, result : {FALSE} ]
  /\ det.last <= det.t     \* last_tts_end_time is an earlier time.time()

EvalDetect ==
  /\ det.phase = "input"
  /\ det' = [det EXCEPT !.phase = "output",
                        !.result = detect_voice_interrupt(det.t, det.last,
                                                          det.checked, det.hearing)]
  /\ UNCHANGED <<sr, tts, win, now, hist>>

NextDetect == EvalDetect

SpecDetect == InitDetect /\ [][NextDetect]_vars

\* =========================================================================
\* TTSEngine._clean_text_for_speech: a text is a sequence of characters
\* =========================================================================

MaxPieces == 3

Letters == {"a", "b", "c", "d", "e", "f", "g", "h", "i", "j", "k", "l", "m",
            "n", "o", "p", "q", "r", "s", "t", "u", "v", "w", "x", "y", "z",
            "A", "B", "C", "D", "E", "F", "G", "H", "I", "J", "K", "L", "M",
            "N", "O", "P", "Q", "R", "S", "T", "U", "V", "W", "X", "Y", "Z"}
Digits == {"0", "1", "2", "3", "4", "5", "6", "7", "8", "9"}

\* \w, \s and the characters the class [^\w\s.,?!-] lets through
IsWord(ch) == ch \in Letters \cup Digits \cup {"_"}
IsSpace(ch) == ch \in {" ", "\t", "\n"}
IsKept(ch) == IsWord(ch) \/ IsSpace(ch) \/ ch \in {".", ",", "?", "!", "-"}

HasPrefix(text, pre) ==
  Len(text) >= Len(pre) /\ SubSeq(text, 1, Len(pre)) = pre

\* length of the longest prefix of text without whitespace: \S*
RECURSIVE NonSpaceRun(_)
NonSpaceRun(text) ==
  IF text = <<>> \/ IsSpace(Head(text)) THEN 0
  ELSE 1 + NonSpaceRun(Tail(text))

\* length of the match of https?://\S+|www\.\S+ at the start of text, 0 if
\* there is none
UrlMatchLen(text) ==
  LET scheme == IF HasPrefix(text, <<"h", "t", "t", "p", "s", ":", "/", "/">>) THEN 8
                ELSE IF HasPrefix(text, <<"h", "t", "t", "p", ":", "/", "/">>) THEN 7
                ELSE IF HasPrefix(text, <<"w", "w", "w", ".">>) THEN 4
                ELSE 0
      rest == NonSpaceRun(SubSeq(text, scheme + 1, Len(text)))
  IN IF scheme > 0 /\ rest > 0 THEN scheme + rest ELSE 0

url_omitted == <<" ", "U", "R", "L", " ", "o", "m", "i", "t", "t", "e", "d", " ">>

\* re.sub(r'https?://\S+|www\.\S+', ' URL omitted ', text)
RECURSIVE remove_urls(_)
remove_urls(text) ==
  IF text = <<>> THEN <<>>
  ELSE IF UrlMatchLen(text) > 0
    THEN url_omitted \o remove_urls(SubSeq(text, UrlMatchLen(text) + 1, Len(text)))
    ELSE <<Head(text)>> \o remove_urls(Tail(text))

\* re.sub(r'[^\w\s.,?!-]', ' ', text)
replace_special(text) ==
  [i \in 1..Len(text) |-> IF IsKept(text[i]) THEN text[i] ELSE " "]

\* re.sub(r'\s+', ' ', text)
RECURSIVE collapse_spaces(_)
collapse_spaces(text) ==
  IF text = <<>> THEN <<>>
  ELSE IF IsSpace(Head(text))
    THEN IF Len(text) > 1 /\ IsSpace(text[2])
           THEN collapse_spaces(Tail(text))
           ELSE <<" ">> \o collapse_spaces(Tail(text))
    ELSE <<Head(text)>> \o collapse_spaces(Tail(text))

\* str.strip()
RECURSIVE strip(_)
strip(text) ==
  IF text = <<>> THEN <<>>
  ELSE IF IsSpace(Head(text)) THEN strip(Tail(text))
  ELSE IF IsSpace(text[Len(text)]) THEN strip(SubSeq(text, 1, Len(text) - 1))
  ELSE text

\* the replacements dict, in its order
replacements ==
  << <<"+", <<" ", "p", "l", "u", "s", " ">>>>,
     <<"=", <<" ", "e", "q", "u", "a", "l", "s", " ">>>>,
     <<"*", <<" ", "t", "i", "m", "e", "s", " ">>>>,
     <<"/", <<" ", "d", "i", "v", "i", "d", "e", "d", " ", "b", "y", " ">>>>,
     <<"<", <<" ", "l", "e", "s", "s", " ", "t", "h", "a", "n", " ">>>>,
     <<">", <<" ", "g", "r", "e", "a", "t", "e", "r", " ", "t", "h", "a", "n", " ">>>>,
     <<"@", <<" ", "a", "t", " ">>>>,
     <<"#", <<" ", "h", "a", "s", "h", "t", "a", "g", " ">>>>,
     <<"$", <<" ", "d", "o", "l", "l", "a", "r", " ">>>>,
     <<"%", <<" ", "p", "e", "r", "c", "e", "n", "t", " ">>>>,
     <<"&", <<" ", "a", "n", "d", " ">>>>,
     <<"|", <<" ", "o", "r", " ">>>>,
     <<"_", <<" ", "u", "n", "d", "e", "r", "s", "c", "o", "r", "e", " ">>>> >>

\* str.replace(char, replacement) for a one-character char
RECURSIVE str_replace(_, _, _)
str_replace(text, char, replacement) ==
  IF text = <<>> THEN <<>>
  ELSE (IF Head(text) = char THEN replacement ELSE <<Head(text)>>)
         \o str_replace(Tail(text), char, replacement)

\* for char, replacement in replacements.items(): text = text.replace(...)
RECURSIVE replace_symbols(_, _)
replace_symbols(text, k) ==
  IF k > Len(replacements) THEN text
  ELSE replace_symbols(str_replace(text, replacements[k][1], replacements[k][2]),
                       k + 1)

_clean_text_for_speech(text) ==
  replace_symbols(strip(collapse_spaces(replace_special(remove_urls(text)))), 1)

\* The texts the transform is applied to: up to MaxPieces pieces in a row,
\* and the text "Check https://x.com now! 50%".
Pieces ==
  { <<" ">>, <<"a">>, <<".">>, <<"%">>, <<"_">>,
    <<"h", "t", "t", "p", ":", "/", "/", "x">>, <<"w", "w", "w", ".", "x">> }

RECURSIVE Concat(_)
Concat(ps) == IF ps = <<>> THEN <<>> ELSE Head(ps) \o Concat(Tail(ps))

ScenarioB == <<"C", "h", "e", "c", "k", " ", "h", "t", "t", "p", "s", ":", "/", "/", "x", ".", "c", "o", "m", " ", "n", "o", "w", "!", " ", "5", "0", "%">>

CleanInputs ==
  { Concat(ps) : ps \in UNION { [1..n -> Pieces] : n \in 0..MaxPieces } }
    \cup {ScenarioB}

InitClean ==
  /\ sr = NewMainWindow.sr
  /\ tts = NewMainWindow.tts
  /\ win = NewMainWindow.win
  /\ now = NewMainWindow.now
  /\ hist = NewMainWindow.hist
  /\ det \in [ phase : {"text"}, text : CleanInputs,
               once : {<<>>}, twice : {<<>>} ]

\* speak(): clean_text = self._clean_text_for_speech(text)
CleanText ==
  /\ det.phase = "text"
  /\ det' = [det EXCEPT !.phase = "once",
                        !.once = _clean_text_for_speech(det.text)]
  /\ UNCHANGED <<sr, tts, win, now, hist>>

\* the transform applied to its own result
CleanAgain ==
  /\ det.phase = "once"
  /\ det' = [det EXCEPT !.phase = "twice",
                        !.twice = _clean_text_for_speech(det.once)]
  /\ UNCHANGED <<sr, tts, win, now, hist>>

NextClean == CleanText \/ CleanAgain

SpecClean == InitClean /\ [][NextClean]_vars

\* =========================================================================
\* GeminiClient.generate_response
\* =========================================================================

MaxCalls == 12

max_history == 10

\* The conversation history is the sequence of the roles of its messages.
NewGeminiClient ==
  [ phase |-> "gemini",
    conversation_history |-> <<"system">>,
    ret |-> "none",            \* what the last call returned
    propagated |-> FALSE,      \* an exception left the last call
    calls |-> 0 ]

\* What the backends do during one call.  image: "none", "bad" (_prepare_image
\* fails and returns None) or "good"; decision: the answer of the decision
\* request or "raise"; search: what web_search.search() gives or "raise";
\* final: the answering generate_content() request; img_fail: how many of the
\* three image requests raise, in order.
BackendOutcomes ==
  [ image : {"none", "bad", "good"},
    decision : {"WEB_SEARCH", "NO_SEARCH", "raise"},
    search : {"results", "empty", "raise"},
    final : {"ok", "raise"},
    img_fail : 0..3 ]

\* `except Exception as e:` of generate_response: log, return the apology
\* that carries str(e).
generate_response_except(g) ==
  [g EXCEPT !.ret = "error_apology", !.propagated = FALSE]

\* The end of the try block: append the answer, trim the history, return.
generate_response_return(g, answer) ==
  LET h == Append(g.conversation_history, "assistant")
      trimmed == IF Len(h) > max_history + 1
                   THEN <<h[1]>> \o SubSeq(h, Len(h) - max_history + 1, Len(h))
                   ELSE h
  IN [g EXCEPT !.conversation_history = trimmed,
               !.ret = answer,
               !.propagated = FALSE]

\* The body of the try block up to the answer: the history with the user
\* message appended, whether an exception reaches the end of the body, and
\* the answer otherwise.
generate_response_body(g, o) ==
  LET g1 == [g EXCEPT !.conversation_history = Append(@, "user"),
                      !.calls = @ + 1]
      \* the decision request has its own try/except: a failure means NO_SEARCH
      action_decision == IF o.decision = "WEB_SEARCH" THEN "WEB_SEARCH"
                         ELSE "NO_SEARCH"
      processed_image == o.image = "good"
  IN [ g |-> g1,
       raises |-> \/ action_decision = "WEB_SEARCH" /\ o.search = "raise"
                  \/ ~processed_image /\ o.final = "raise",
       answer |-> IF processed_image /\ o.img_fail = 3 THEN "image_apology"
                  ELSE "answer" ]

\* generate_response without its outer try/except
generate_response_notry(g, o) ==
  LET b == generate_response_body(g, o)
  IN IF b.raises THEN [b.g EXCEPT !.ret = "none", !.propagated = TRUE]
     ELSE generate_response_return(b.g, b.answer)

generate_response(g, o) ==
  LET b == generate_response_body(g, o)
  IN IF b.raises THEN generate_response_except(b.g)
     ELSE generate_response_return(b.g, b.answer)

InitGemini ==
  /\ sr = NewMainWindow.sr
  /\ tts = NewMainWindow.tts
  /\ win = NewMainWindow.win
  /\ now = NewMainWindow.now
  /\ hist = NewMainWindow.hist
  /\ det = NewGeminiClient

\* ResponseThread.run: response = self.gemini_client.generate_response(...)
CallGenerateResponse ==
  /\ det.calls < MaxCalls
  /\ \E o \in BackendOutcomes : det' = generate_response(det, o)
  /\ UNCHANGED <<sr, tts, win, now, hist>>

NextGemini == CallGenerateResponse

SpecGemini == InitGemini /\ [][NextGemini]_vars

\* =========================================================================
\* MainWindow.closeEvent and the webcam
\* =========================================================================

\* The methods class TTSEngine defines that do not start with an underscore
TTSEngineMethods ==
  {"get_available_voices", "set_voice", "set_auto_interrupt_detector",
   "speak", "stop_speaking"}

\* WebcamWidget: cap is the cv2.VideoCapture ("none" for None), timer the
\* 30 ms QTimer; closed tells that closeEvent has run.
NewWebcamWidget ==
  [ phase |-> "window", cap |-> "none", timer |-> FALSE, closed |-> FALSE ]

\* start_webcam(); opened is what cap.isOpened() answers
start_webcam(d, opened) ==
  IF d.cap = "none" /\ opened THEN [d EXCEPT !.cap = "open", !.timer = TRUE]
  ELSE d

stop_webcam(d) == [d EXCEPT !.cap = "none", !.timer = FALSE]

\* toggle_webcam(enabled), the slot of webcam_toggle.toggled
toggle_webcam(d, enabled, opened) ==
  IF enabled THEN start_webcam(d, opened) ELSE stop_webcam(d)

\* closeEvent: the three cleanup calls are in one try block.  c is the
\* world, d the webcam; the result is both after the handler.  A call of a
\* method the engine does not have raises AttributeError, which the except
\* clause logs; the statements after the call are not run.
closeEvent(c, d) ==
  LET c1 == stop_listening(c)
  IN IF "stop" \notin TTSEngineMethods
       THEN [ c |-> c1, d |-> [d EXCEPT !.closed = TRUE] ]
       ELSE [ c |-> c1, d |-> [stop_webcam(d) EXCEPT !.closed = TRUE] ]

InitClose ==
  /\ sr = NewMainWindow.sr
  /\ tts = NewMainWindow.tts
  /\ win = NewMainWindow.win
  /\ now = NewMainWindow.now
  /\ hist = NewMainWindow.hist
  /\ det = NewWebcamWidget

\* The user clicks webcam_toggle
ClickWebcam ==
  /\ ~det.closed
  /\ \E enabled, opened \in BOOLEAN : det' = toggle_webcam(det, enabled, opened)
  /\ UNCHANGED <<sr, tts, win, now, hist>>

\* The user closes the window
CloseWindow ==
  /\ ~det.closed
  /\ LET r == closeEvent(World, det) IN Commit(r.c) /\ det' = r.d

\* The application's listening and speaking steps, its webcam, and the
\* closing of its window.
NextClose ==
  \/ ClickWebcam
  \/ CloseWindow
  \/ ClickVoiceInput
  \/ HandleResponse
  \/ MediaEnd
  \/ \E w \in ListenThreads : ListenLoopTop(w)
  \/ \E w \in ListenThreads : ListenCaptured(w)
  \/ \E w \in ListenThreads : ListenRecognized(w)
  \/ \E w \in ListenThreads : ListenBackoffDone(w)
  \/ \E s \in Sessions : SpeakThreadStart(s)
  \/ \E s \in Sessions : SpeakThreadGenerated(s)
  \/ \E s \in Sessions : SpeakThreadPlay(s)

SpecClose == InitClose /\ [][NextClose]_vars

\* =========================================================================
\* Claims
\* =========================================================================

\* C1: the listening session is never doubly active: while is_listening is
\* set, at most one _listen_loop thread is alive (able to capture and emit).
C1_SingleListenWorker ==
  sr.is_listening => Cardinality(LiveListen(World)) <= 1

\* C2: the audio of a session that a later speak() superseded is never
\* handed to the player.
C2_SupersededNeverPlayed ==
  \A s \in Sessions : hist.handed[s] # "superseded"

\* C3: no _listen_loop thread is capturing from the microphone while
\* synthesized audio is playing.
C3_NoCaptureWhilePlaying ==
  ~(tts.playing /\ \E w \in ListenThreads : sr.threads[w] = "capture")

\* C4: a step that emits playback_started while is_listening is set leaves
\* is_listening cleared and was_listening set.
C4_PauseOnPlaybackStarted ==
  [][\A s \in Sessions :
       (hist.started[s] = 0 /\ hist.started[s]' = 1 /\ sr.is_listening)
         => (~sr.is_listening' /\ win.was_listening')]_vars

\* C5: a step that emits playback_finished for a session at whose start
\* listening was active, while voice input is still switched on, ends with
\* listening started again.
C5_ResumeOnPlaybackFinished ==
  [][\A s \in Sessions :
       (hist.finished[s]' > hist.finished[s] /\ hist.listening_at_start[s]
          /\ win.voice_checked)
         => sr.is_listening']_vars

\* C6: when the monitor that saw the predicate true during Playing invokes
\* stop_speaking(), the session it saw is still the current one and has not
\* emitted playback_finished, the stop goes through, and its body emits
\* playback_finished for that session and leaves nothing playing.
C6_BargeInStopsItsSession ==
  [][\A s \in Sessions :
       /\ (tts.monitors[s] = "stop" /\ tts.monitors[s]' # "stop" /\ hist.barge[s] # 0)
            => /\ tts.monitors[s]' = "stopping"
               /\ tts.cur = hist.barge[s]
               /\ hist.finished[hist.barge[s]] = 0
       /\ (tts.monitors[s] = "stopping" /\ tts.monitors[s]' = "done" /\ hist.barge[s] # 0)
            => /\ tts.cur = hist.barge[s]
               /\ hist.finished[hist.barge[s]]' = 1
               /\ ~tts.playing' /\ ~tts.is_speaking']_vars

\* C7: an evaluation of detect_voice_interrupt at a time less than the
\* debounce window after last_tts_end_time returns false, whatever
\* is_hearing_audio and the voice-input button are.
C7_DebounceSuppressesInterrupt ==
  (det.phase = "output" /\ det.t - det.last < InterruptDebounce)
    => det.result = FALSE

C7_Witness ==
  /\ det.phase = "output"
  /\ det.t - det.last < InterruptDebounce
  /\ det.t >= det.last
  /\ det.checked /\ det.hearing
  /\ det.result = FALSE

\* C8: with nothing being spoken, no _listen_loop iteration opens the
\* microphone less than the debounce window after the last playback end.
C8_NoMicInsideDebounce ==
  [][\A w \in ListenThreads :
       (sr.threads[w] = "loop" /\ sr.threads[w]' = "capture")
         => ~(/\ ~tts.is_speaking
              /\ hist.playback_end >= 0
              /\ now - hist.playback_end < debounce_time)]_vars

\* C9: no thread emits speech_recognized after stop_listening() has
\* completed for its session.
C9_NoEmitAfterStop ==
  hist.late = {}

\* C10: a session begun by speak() while the previous one was Playing finds,
\* when its playback_started is emitted, exactly one playback_finished
\* already emitted for the previous session, whose temp file is removed and
\* was removed exactly once.
C10_PreviousReleasedOnce ==
  \A n \in Sessions :
    (n > 1 /\ hist.prev_state[n] = "Playing")
      => /\ hist.fin_at_start[n] = 1
         /\ hist.released[n - 1] = 1
         /\ tts.files[n - 1] = "removed"

\* C11: the audio of a session on which stop_speaking() was called while its
\* generation was in flight is never played.
C11_CancelledNeverPlayed ==
  \A s \in hist.cancelled : ~(tts.playing /\ tts.source = s)

\* C12: once the thread of a session has returned and the session is over
\* (it is not the one being spoken and its audio is not playing) its temp
\* file is not on disk; and once the thread has returned after a failed
\* synthesis, the file it created is not on disk.
C12_TempFileReleased ==
  \A s \in Sessions :
    tts.threads[s] = "done"
      => /\ (~(tts.playing /\ tts.source = s) /\ ~(tts.cur = s /\ tts.is_speaking))
              => tts.files[s] # "exists"
         /\ tts.audio[s] = "failed" => tts.files[s] # "exists"

\* C13: the step in which the generation of the session being spoken fails
\* ends with is_speaking cleared, playback_finished emitted for the session
\* and the thread returned without giving the file to the player.
C13_SynthesisFailureToIdle ==
  [][\A s \in Sessions :
       (/\ tts.threads[s] = "generate" /\ tts.cur = s /\ tts.is_speaking
        /\ tts.audio[s]' = "failed")
         => /\ ~tts.is_speaking'
            /\ hist.finished[s]' = hist.finished[s] + 1
            /\ tts.threads[s]' = "done"]_vars

\* C14: the step in which playback ends naturally (the player reaches
\* EndOfMedia and playback_finished is emitted) leaves last_tts_end_time
\* equal to the time of that step.
C14_TimestampOnNaturalEnd ==
  [][(/\ tts.playing /\ ~tts.playing'
      /\ tts.cur # 0 /\ tts.cur' = tts.cur
      /\ hist.finished[tts.cur]' > hist.finished[tts.cur])
       => sr.last_tts_end_time' = now']_vars

\* C15: a monitor thread that is about to poll (it is in its loop and
\* is_speaking is set) was started for the current session, not for an
\* earlier one; so no two monitors poll at once.
C15_MonitorOfCurrentSession ==
  \A s \in Sessions :
    (tts.monitors[s] = "poll" /\ tts.is_speaking) => tts.cur = s

\* C16: once playback_started has been emitted for a session, the thread of
\* that session has finished generating and has given the audio to the
\* player.
C16_StartedWhenAudioBegins ==
  \A s \in Sessions :
    hist.started[s] > 0 => (tts.threads[s] = "done" /\ hist.handed[s] # "no")

\* C17: every step that emits playback_finished for a session comes after
\* playback_started has been emitted for that session, whichever path emits
\* it (stop_speaking, EndOfMedia, the monitor's stop, the thread's except
\* branch).
C17_StartedBeforeFinished ==
  [][\A s \in Sessions :
       hist.finished[s]' > hist.finished[s] => hist.started[s] > 0]_vars

\* a session that played to its end, and one ended by the except branch
C17_Witness ==
  \E s, t \in Sessions :
    /\ hist.started[s] = 1 /\ hist.finished[s] = 1
    /\ hist.handed[s] = "current" /\ tts.files[s] = "removed"
    /\ hist.started[t] = 1 /\ hist.finished[t] = 1
    /\ tts.threads[t] = "done" /\ tts.files[t] = "none"

\* C18: in single-shot mode, the step in which the worker of the latest
\* start_listening() gets a text from recognition emits that start's one and
\* only speech_recognized, clears is_listening and ends the worker; a
\* worker that has ended stays ended (it captures nothing more).
C18_SingleShotEmitsOnce ==
  [][\A w \in ListenThreads :
       /\ (/\ w = sr.listen_thread /\ ~sr.continuous_mode
           /\ sr.threads[w] = "recognize"
           /\ hist.recognized[w]' # hist.recognized[w])
            => /\ hist.recognized[w] = 0 /\ hist.recognized[w]' = 1
               /\ ~sr.is_listening'
               /\ sr.threads[w]' = "done"
       /\ sr.threads[w] = "done" => sr.threads[w]' = "done"]_vars

\* a single-shot worker that emitted once and ended by itself
C18_Witness ==
  \E w \in ListenThreads :
    /\ w = sr.listen_thread /\ ~sr.continuous_mode
    /\ w \notin hist.stopped
    /\ hist.recognized[w] = 1
    /\ sr.threads[w] = "done" /\ ~sr.is_listening

\* C19: in every state, stop_speaking() called twice in a row leaves what
\* the first call left (no second playback_finished, no second removal),
\* and stop_speaking() called with is_speaking clear changes nothing.
C19_StopIdempotent ==
  LET c1 == stop_speaking(World) IN
  /\ stop_speaking(c1) = c1
  /\ ~c1.tts.is_speaking
  /\ ~tts.is_speaking => c1 = World

\* a state that a call of stop_speaking() left, the session's thread still
\* generating: playback_finished emitted and the file removed, once each
C19_Witness ==
  \E s \in hist.cancelled :
    /\ tts.cur = s /\ ~tts.is_speaking
    /\ tts.threads[s] = "generate"
    /\ hist.finished[s] = 1 /\ hist.released[s] = 1

\* C20: in every state where is_listening is set, start_listening(continuous)
\* changes nothing, whatever continuous is: no thread is created, no
\* "Listening..." status is emitted, continuous_mode keeps its value.
C20_StartWhileListeningNoOp ==
  sr.is_listening =>
    \A continuous \in BOOLEAN : start_listening(World, continuous) = World

\* listening in single-shot mode with the worker in recognition (Processing)
\* and room for another thread
C20_Witness ==
  /\ sr.is_listening /\ ~sr.continuous_mode
  /\ sr.listen_thread # None /\ sr.threads[sr.listen_thread] = "recognize"
  /\ CanStartThread(World)

C22_WorkerExitsAtSafePoint ==
  [][(Created(World) # {} /\ hist.stopped = Created(World)) =>
       /\ ~sr.is_listening
       /\ \A w \in ListenThreads :
            /\ (sr.threads[w] = "capture" /\ sr.threads'[w] # "capture")
                 => sr.threads'[w] = "done"
            /\ sr.threads[w] # "capture" => sr.threads'[w] # "capture"]_vars

\* stop_listening() has completed while the latest worker was blocked in
\* recognizer.listen(), and nothing was started since
C22_Witness ==
  /\ sr.listen_thread # None
  /\ hist.stopped = Created(World)
  /\ sr.threads[sr.listen_thread] = "capture"
  /\ ~sr.is_listening

\* The status texts SpeechRecognitionEngine emits in normal operation ("" is
\* the status before the first emission).
OrdinaryStatus ==
  {"", "Listening...", "Listening for command...", "Processing speech...",
   "Not listening"}

\* C23: when a worker finds the audio device unavailable (sr.Microphone()
\* raises and the worker goes to its 0.5 s back-off), the status shown after
\* that step reports the failure, the report is made once (a retry that
\* fails again while the report is showing emits nothing), and the engine
\* stays usable: the worker is alive to retry while is_listening is set.
C23_MicUnavailableSurfacedOnce ==
  [][\A w \in ListenThreads :
       (sr.threads[w] = "loop" /\ sr.threads'[w] = "backoff") =>
         /\ hist.status' \notin OrdinaryStatus
         /\ hist.status \notin OrdinaryStatus => hist.status' = hist.status
         /\ sr.is_listening' = sr.is_listening]_vars

\* C24: a recoverable capture failure does not end the session.  Whenever a
\* worker is in recognize_google() and it raises sr.UnknownValueError, or is
\* in recognizer.listen() and it raises sr.WaitTimeoutError, the worker is
\* back at the top of its loop (it has not ended, nothing left _listen_loop),
\* is_listening and the mode are as they were, no speech_recognized was
\* emitted, and with is_listening set the loop top does not end the worker.
C24_RecoverableFailuresLoopOn ==
  \A w \in ListenThreads :
    LET looped(c1) ==
          /\ c1.sr.threads[w] = "loop"
          /\ c1.sr.is_listening = sr.is_listening
          /\ c1.sr.continuous_mode = sr.continuous_mode
          /\ c1.hist.recognized = hist.recognized
          /\ sr.is_listening =>
               \A mic \in BOOLEAN : listen_loop_top(c1, w, mic).sr.threads[w] # "done"
    IN /\ sr.threads[w] = "recognize" => looped(listen_recognized(World, w, "unknown"))
       /\ sr.threads[w] = "capture" => looped(listen_captured(World, w, "timeout"))

\* a worker that went round after a segment with no text: back at the top of
\* the loop with "Processing speech..." as the last status, still listening,
\* nothing emitted
C24_Witness ==
  \E w \in ListenThreads :
    /\ sr.threads[w] = "loop" /\ sr.is_listening /\ sr.listen_thread = w
    /\ hist.status = "Processing speech..."
    /\ hist.recognized[w] = 0

\* C25: for every text, cleaning the cleaned text gives the cleaned text.
C25_SanitizationIdempotent ==
  det.phase = "twice" => det.twice = det.once

\* number of places where sub occurs in text
Occurrences(text, sub) ==
  Cardinality({ i \in 1..Len(text) : HasPrefix(SubSeq(text, i, Len(text)), sub) })

ContainsUrl(text) ==
  \E i \in 1..Len(text) : UrlMatchLen(SubSeq(text, i, Len(text))) > 0

\* C26: the cleaned text contains no URL; every symbol of the replacements
\* table that the text contains outside a URL is in the cleaned text as its
\* spoken form, '%' as " percent "; "Check https://x.com now! 50%" comes out
\* with no URL and with " percent ".
C26_NoUrlAndSymbolsSpoken ==
  det.phase = "once" =>
    /\ ~ContainsUrl(det.once)
    /\ ~ContainsUrl(det.text) =>
         \A k \in 1..Len(replacements) :
           Occurrences(det.once, replacements[k][2])
             = Occurrences(det.text, <<replacements[k][1]>>)
    /\ det.text = ScenarioB =>
         Occurrences(det.once, replacements[10][2]) = 1

\* The requests of a call that can fail with nothing inside the try block to
\* catch them: the web search, and the answering request when no image is
\* analysed.
BackendFails(o) ==
  \/ o.decision = "WEB_SEARCH" /\ o.search = "raise"
  \/ o.image # "good" /\ o.final = "raise"

\* C27: whatever the language model and the search backend do during a call
\* of generate_response, in every state of the client, no exception leaves
\* the call and it returns a string; when the search, or the answering
\* request, fails, the string is the apology that reports the error, and
\* when all three image requests fail it is the image apology.
C27_GenerateNeverPropagates ==
  det.calls < MaxCalls =>
    \A o \in BackendOutcomes :
      LET g1 == generate_response(det, o) IN
      /\ ~g1.propagated
      /\ g1.ret \in {"answer", "image_apology", "error_apology"}
      /\ BackendFails(o) => g1.ret = "error_apology"
      /\ (~BackendFails(o) /\ o.image = "good" /\ o.img_fail = 3)
           => g1.ret = "image_apology"

\* a call has returned the error apology: its user message is the last
\* entry of the history, no answer after it
C27_Witness ==
  /\ det.calls > 0
  /\ det.ret = "error_apology"
  /\ ~det.propagated
  /\ det.conversation_history[Len(det.conversation_history)] = "user"

\* C28: playback_finished is emitted at most once for a playback session,
\* however stop_speaking() from the GUI thread, stop_speaking() from the
\* session's monitor thread, the end-of-media callback and the error path of
\* the generation thread interleave.
C28_FinishedAtMostOnce ==
  \A s \in Sessions : hist.finished[s] <= 1

\* C29: under fair scheduling, a session for which playback_started was
\* emitted leads to a state where playback_finished has been emitted for it
\* and it is not speaking, whether or not speak() or stop_speaking() is
\* called again.
C29_StartedLeadsToFinished ==
  \A s \in Sessions :
    (hist.started[s] > 0)
      ~> (hist.finished[s] > 0 /\ ~(tts.cur = s /\ tts.is_speaking))

\* C30: the interruption predicate follows the listening side's live signal.
\* When a listening worker picks up the user's speech while audio is playing
\* (its recognizer.listen() returns a segment during Playing), is_hearing_audio
\* is set in the state reached, and detect_voice_interrupt evaluated in that
\* state, with the voice-input button checked and outside its debounce
\* window, returns true.
C30_PredicateFollowsLiveSignal ==
  [][\A w \in ListenThreads :
       (tts.playing /\ sr.threads[w] = "capture" /\ sr.threads'[w] = "recognize")
         => /\ sr.is_hearing_audio'
            /\ (win.voice_checked'
                  /\ now' - sr.last_tts_end_time' >= InterruptDebounce)
                 => detect_voice_interrupt(now', sr.last_tts_end_time',
                                           win.voice_checked',
                                           sr.is_hearing_audio')]_vars

\* C31: in continuous mode with is_listening set, the only step that clears
\* is_listening is a call of stop_listening(); the step in which a worker's
\* recognize_google() returns (a text, which is emitted, or nothing) leaves
\* the worker alive and is_listening set, and a worker back at the top of
\* its loop does not end there: it goes on to another capture once the
\* debounce time has passed.
C31_ContinuousReturnsToListening ==
  [][(sr.continuous_mode /\ sr.is_listening) =>
       /\ ~sr.is_listening' => hist.stopped' # hist.stopped
       /\ \A w \in ListenThreads :
            (sr.threads[w] = "recognize" /\ sr.threads'[w] # "recognize") =>
              /\ sr.is_listening' /\ sr.continuous_mode'
              /\ sr.threads'[w] \in {"loop", "backoff"}
              /\ sr.threads'[w] = "loop" =>
                   \A mic \in BOOLEAN :
                     listen_loop_top(World', w, mic).sr.threads[w] # "done"]_vars

\* a continuous session whose worker has emitted a text and is back at the
\* top of its loop, still listening, no stop since the start
C31_Witness ==
  \E w \in ListenThreads :
    /\ sr.continuous_mode /\ sr.is_listening /\ sr.listen_thread = w
    /\ sr.threads[w] = "loop"
    /\ hist.recognized[w] > 0
    /\ w \notin hist.stopped

\* C32: the step that closes the main window leaves listening stopped,
\* nothing being spoken or played, and the webcam released (no capture
\* device held, its timer stopped).
C32_CloseCleansUp ==
  [][(~det.closed /\ det.closed') =>
       /\ ~sr.is_listening'
       /\ ~tts.is_speaking' /\ ~tts.playing'
       /\ det.cap' = "none" /\ ~det.timer']_vars

\* C33: in every state with is_listening set, some _listen_loop thread is
\* alive (at the top of its loop, capturing, recognizing or backing off).
C33_ListeningHasWorker ==
  sr.is_listening => LiveListen(World) # {}

\* listening again after a stop that the previous worker outlived: that
\* worker is still in recognition, the new one is alive beside it
C33_Witness ==
  /\ sr.is_listening
  /\ \E w \in hist.stopped : sr.threads[w] = "recognize"
  /\ sr.listen_thread \notin hist.stopped
  /\ sr.threads[sr.listen_thread] \in {"loop", "capture"}

\* C34: after any number of generate_response calls, whatever their
\* outcomes, the conversation history has at most max_history + 1 entries
\* and its first entry is the system message.
C34_HistoryBounded ==
  /\ Len(det.conversation_history) <= max_history + 1
  /\ det.conversation_history[1] = "system"

\* C35: in every state, speak("") changes nothing: no playback_started and
\* no playback_finished is emitted, no thread is started, and is_speaking,
\* the temp file, the player and the session counter are as before.
C35_SpeakEmptyNoOp ==
  speak(World, "") = World

\* a session is playing (speak("") may be called on it)
C35_Witness ==
  /\ tts.cur # 0 /\ tts.is_speaking /\ tts.playing
  /\ tts.source = tts.cur
  /\ hist.started[tts.cur] = 1 /\ hist.finished[tts.cur] = 0

====
